---- MODULE Spec2Model ----
(***************************************************************************)
(* Model of src/main.py: the binaural beat generator.                      *)
(*                                                                         *)
(* Durations are fixed-point numbers: a duration of t ticks is             *)
(* t / TicksPerSecond seconds (with TicksPerSecond = 8 every modelled      *)
(* duration is exactly representable as a Python float, and the float      *)
(* results of /, % and np.arange agree with the exact arithmetic below).   *)
(*                                                                         *)
(* A sample buffer (numpy array / AudioSegment data) is kept in run-length *)
(* form: the sequence of synthesized chunks it is the concatenation of,    *)
(* each chunk with its number of stereo frames, and a tiling count `reps`  *)
(* (the buffer is `chunks` repeated `reps` times end-to-end).              *)
(***************************************************************************)
EXTENDS Integers, Sequences, FiniteSets, TLC

\* ------------------------------------------------------------------ bounds
TicksPerSecond == 8
MaxInstr == 2
MaxPlays == 2

\* ------------------------------------------------------- program constants
SampleRate == 44100
MaxChunkSeconds == 60
DefaultVolume == -20
DefaultLeft == 440
DefaultRight == 444
DefaultDuration == 10

Seconds(s) == s * TicksPerSecond
ChunkTicks == Seconds(MaxChunkSeconds)
desired_duration == Seconds(2 * 60 * 60)

\* ------------------------------------------------------------ input domain
InstrKeys == {"left_frequency", "right_frequency", "duration", "volume"}
SpecKeys == {"base", "program", "loop"}

\* 0 s, 1/TicksPerSecond s, 10 s, 45 s, 60 s, 150 s, 7260 s
Durations ==
    {0, 1, Seconds(DefaultDuration), Seconds(45), ChunkTicks, Seconds(150),
     Seconds(7260)}
Tones == {4, 8}

\* A JSON object of the legacy list form; a key not in `keys` is absent (its
\* field is then 0 and never read).
Instr(keys, l, r, d, v) ==
    [keys |-> keys,
     left_frequency |-> IF "left_frequency" \in keys THEN l ELSE 0,
     right_frequency |-> IF "right_frequency" \in keys THEN r ELSE 0,
     duration |-> IF "duration" \in keys THEN d ELSE 0,
     volume |-> IF "volume" \in keys THEN v ELSE 0]

WellFormedInstrs ==
    {Instr(InstrKeys, DefaultLeft, DefaultRight, d, DefaultVolume) : d \in Durations}
MalformedInstrs ==
    {Instr(InstrKeys \ {k}, DefaultLeft, DefaultRight, d, DefaultVolume) :
        k \in InstrKeys, d \in {0, Seconds(45)}}
InputInstrs == WellFormedInstrs \cup MalformedInstrs

Pairs == {<<t, d>> : t \in Tones, d \in Durations}

SeqsUpTo(S, n) == UNION {[1..k -> S] : k \in 0..n}

\* What json.load returns: a list of instruction objects, or an object with a
\* subset of the keys base / program / loop.
JsonList(items) ==
    [type |-> "list", items |-> items, keys |-> {}, base |-> 0,
     program |-> <<>>, loop |-> FALSE]
JsonDict(keys, base, program, lp) ==
    [type |-> "dict", items |-> <<>>, keys |-> keys,
     base |-> IF "base" \in keys THEN base ELSE 0,
     program |-> IF "program" \in keys THEN program ELSE <<>>,
     loop |-> IF "loop" \in keys THEN lp ELSE FALSE]

JsonValues ==
    {JsonList(items) : items \in SeqsUpTo(InputInstrs, MaxInstr)}
    \cup {JsonDict(keys, DefaultLeft, program, lp) :
            keys \in {K \in SUBSET SpecKeys : "base" \in K},
            program \in SeqsUpTo(Pairs, MaxInstr), lp \in BOOLEAN}
    \cup {JsonDict(keys, 0, <<>>, lp) :
            keys \in {K \in SUBSET SpecKeys : "base" \notin K}, lp \in BOOLEAN}

NoJson == JsonList(<<>>)

\* The file named by --spec_file: readable JSON, absent, or not JSON.
Files ==
    {[status |-> "ok", json |-> j] : j \in JsonValues}
    \cup {[status |-> s, json |-> NoJson] : s \in {"missing", "malformed"}}

\* argparse result; spec_file = FALSE is "no -s given".
CliArgs ==
    {[spec_file |-> FALSE, left_frequency |-> DefaultLeft,
      right_frequency |-> DefaultRight, duration |-> d, volume |-> DefaultVolume] :
        d \in Durations}
FileArgs ==
    [spec_file |-> TRUE, left_frequency |-> DefaultLeft,
     right_frequency |-> DefaultRight, duration |-> Seconds(DefaultDuration),
     volume |-> DefaultVolume]

\* ------------------------------------------------------------------- state
VARIABLES
    args,          \* parsed command line
    file,          \* content behind args.spec_file
    instructions,  \* main's local `instructions`
    loop,          \* main's local `loop`
    beats,         \* main's local `beats`
    i,             \* position of `for instruction in instructions`
    pc,            \* where main is
    raised,        \* the exception that ended the run, or "none"
    plays,         \* number of calls of play so far (saturates at MaxPlays)
    handed         \* argument of the latest call of play

vars == <<args, file, instructions, loop, beats, i, pc, raised, plays, handed>>

\* ----------------------------------------------------------------- buffers
EmptyArray == [chunks |-> <<>>, reps |-> 1]

\* Sum of the frame counts of chunks[lo..hi] (halving keeps the evaluation
\* shallow for buffers of some hundred chunks).
RECURSIVE SumFramesIn(_, _, _)
SumFramesIn(chunks, lo, hi) ==
    IF lo > hi THEN 0
    ELSE IF lo = hi THEN chunks[lo].frames
    ELSE LET mid == (lo + hi) \div 2
         IN  SumFramesIn(chunks, lo, mid) + SumFramesIn(chunks, mid + 1, hi)

SumFrames(chunks) == SumFramesIn(chunks, 1, Len(chunks))

\* len() of the interleaved sample array: two samples (L, R) per frame.
SampleLen(buf) == 2 * buf.reps * SumFrames(buf.chunks)

\* Faulty variant of concatenate: the arguments of np.concatenate swapped.
concatenate_swapped(buf, chunk) ==
    [chunks |-> <<chunk>> \o buf.chunks, reps |-> buf.reps]

\* np.concatenate((beats, beat_samples))
concatenate(buf, chunk) == [chunks |-> Append(buf.chunks, chunk), reps |-> buf.reps]

tile(buf, repetitions) ==
    IF repetitions = 0 \/ buf.chunks = <<>>
    THEN EmptyArray
    ELSE [chunks |-> buf.chunks, reps |-> buf.reps * repetitions]

\* ------------------------------------------------------------ synthesis
CeilDiv(a, b) == (a + b - 1) \div b

\* Faulty variant of arange_len: the partial last step dropped.
arange_len_floor(duration) ==
    IF duration <= 0 THEN 0 ELSE (duration * SampleRate) \div TicksPerSecond

\* len(np.arange(0, duration, 1 / sample_rate)): the number of k >= 0 with
\* k / sample_rate < duration.
arange_len(duration) ==
    IF duration <= 0 THEN 0 ELSE CeilDiv(duration * SampleRate, TicksPerSecond)

generate_binaural_beat(frequency_left, frequency_right, duration, volume) ==
    [left |-> frequency_left, right |-> frequency_right, duration |-> duration,
     volume |-> volume, frames |-> arange_len(duration)]

\* Faulty variant of loops_of: rounds up instead of truncating.
loops_of_ceil(duration) == CeilDiv(duration, ChunkTicks)

\* int(duration / 60)
loops_of(duration) == duration \div ChunkTicks

\* duration % 60
remaining_of(duration) == duration % ChunkTicks

\* `for _ in range(n)`: n times concatenate(buf, chunk)
AppendTimes(buf, chunk, n) ==
    [chunks |-> buf.chunks \o [j \in 1..n |-> chunk], reps |-> buf.reps]

\* Returns [raised, value]: the exception raised ("none" if none) and the
\* returned array.
generate_and_store_beat(instruction, buf) ==
    IF "duration" \notin instruction.keys
    THEN [raised |-> "KeyError", value |-> buf]
    ELSE LET duration == instruction.duration
             loops == loops_of(duration)
             remaining_time == remaining_of(duration)
             complete == InstrKeys \subseteq instruction.keys
             full == generate_binaural_beat(instruction.left_frequency,
                                            instruction.right_frequency,
                                            ChunkTicks, instruction.volume)
             rest == generate_binaural_beat(instruction.left_frequency,
                                            instruction.right_frequency,
                                            remaining_time, instruction.volume)
             afterLoops == AppendTimes(buf, full, loops)
         IN  IF (loops > 0 \/ remaining_time > 0) /\ ~complete
             THEN [raised |-> "KeyError", value |-> buf]
             ELSE [raised |-> "none",
                   value |-> IF remaining_time > 0
                             THEN concatenate(afterLoops, rest)
                             ELSE afterLoops]

\* Faulty variant of translate_new_spec_format: the pair unpacked as (duration, tone).
translate_pairs_swapped(new_spec) ==
    IF "program" \notin new_spec.keys
    THEN [raised |-> "KeyError", instructions |-> <<>>, loop |-> FALSE]
    ELSE [raised |-> "none",
          instructions |->
              [k \in 1..Len(new_spec.program) |->
                  Instr(InstrKeys, new_spec.base,
                        new_spec.base + new_spec.program[k][2],
                        new_spec.program[k][1], DefaultVolume)],
          loop |-> IF "loop" \in new_spec.keys THEN new_spec.loop ELSE FALSE]

\* Returns [raised, instructions, loop].
translate_new_spec_format(new_spec) ==
    IF "program" \notin new_spec.keys
    THEN [raised |-> "KeyError", instructions |-> <<>>, loop |-> FALSE]
    ELSE [raised |-> "none",
          instructions |->
              [k \in 1..Len(new_spec.program) |->
                  Instr(InstrKeys, new_spec.base,
                        new_spec.base + new_spec.program[k][1],
                        new_spec.program[k][2], DefaultVolume)],
          loop |-> IF "loop" \in new_spec.keys THEN new_spec.loop ELSE FALSE]

RECURSIVE SumDurations(_)
SumDurations(items) ==
    IF items = <<>> THEN 0 ELSE Head(items).duration + SumDurations(Tail(items))

\* Faulty variants of Repetitions: rounding up; keeping at least one copy.
Repetitions_ceil(total_duration) == CeilDiv(desired_duration, total_duration)
Repetitions_guarded(total_duration) ==
    IF desired_duration \div total_duration = 0 THEN 1
    ELSE desired_duration \div total_duration

\* int(desired_duration / total_duration), total_duration # 0
Repetitions(total_duration) == desired_duration \div total_duration

\* ---------------------------------------------------------------- main
Unbound == [type |-> "unbound", items |-> <<>>, keys |-> {}]

\* Number of iterations of `for instruction in instructions`.
IterCount(ins) == IF ins.type = "dict" THEN Cardinality(ins.keys) ELSE Len(ins.items)

\* Faulty variant of AfterIter: the for loop left before the first instruction.
AfterIter_early(k, ins) == "built"

\* Where the for loop stands once it has reached position k.
AfterIter(k, ins) == IF k > IterCount(ins) THEN "built" ELSE "build"

\* Faulty variant of AfterPlay: play called once in loop mode too.
AfterPlay_once(lp) == "done"

\* After play returns.
AfterPlay(lp) == IF lp THEN "play" ELSE "done"

Init ==
    /\ \/ args \in CliArgs /\ file = [status |-> "missing", json |-> NoJson]
       \/ args = FileArgs /\ file \in Files
    /\ instructions = Unbound
    /\ loop = FALSE
    /\ beats = EmptyArray
    /\ i = 1
    /\ pc = "start"
    /\ raised = "none"
    /\ plays = 0
    /\ handed = EmptyArray

Fail(e) ==
    /\ pc' = "failed"
    /\ raised' = e

\* lines 85-87: open and json.load
LoadSpec ==
    /\ pc = "start"
    /\ args.spec_file
    /\ IF file.status = "missing"
       THEN Fail("FileNotFoundError") /\ UNCHANGED instructions
       ELSE IF file.status = "malformed"
       THEN Fail("JSONDecodeError") /\ UNCHANGED instructions
       ELSE /\ instructions' = [type |-> file.json.type, items |-> file.json.items,
                                keys |-> file.json.keys]
            /\ pc' = "loaded"
            /\ UNCHANGED raised
    /\ UNCHANGED <<args, file, loop, beats, i, plays, handed>>

\* lines 90-91: format detection and translation
DetectFormat ==
    /\ pc = "loaded"
    /\ IF instructions.type = "dict" /\ "base" \in instructions.keys
       THEN LET t == translate_new_spec_format(file.json)
            IN  IF t.raised # "none"
                THEN Fail(t.raised) /\ UNCHANGED <<instructions, loop>>
                ELSE /\ instructions' = [type |-> "list", items |-> t.instructions,
                                         keys |-> {}]
                     /\ loop' = t.loop
                     /\ pc' = AfterIter(1, instructions')
                     /\ UNCHANGED raised
       ELSE /\ pc' = AfterIter(1, instructions)
            /\ UNCHANGED <<instructions, loop, raised>>
    /\ UNCHANGED <<args, file, beats, i, plays, handed>>

\* lines 92-93: one iteration of the for loop
BuildStep ==
    /\ pc = "build"
    /\ IF instructions.type = "dict"
       THEN \* iterating a dict yields its keys: str['duration'] raises
            Fail("TypeError") /\ UNCHANGED <<beats, i>>
       ELSE LET r == generate_and_store_beat(instructions.items[i], beats)
            IN  IF r.raised # "none"
                THEN Fail(r.raised) /\ UNCHANGED <<beats, i>>
                ELSE /\ beats' = r.value
                     /\ i' = i + 1
                     /\ pc' = AfterIter(i + 1, instructions)
                     /\ UNCHANGED raised
    /\ UNCHANGED <<args, file, instructions, loop, plays, handed>>

\* lines 95-101: the instruction of the scalar flags
CliBuild ==
    /\ pc = "start"
    /\ ~args.spec_file
    /\ LET instruction == Instr(InstrKeys, args.left_frequency, args.right_frequency,
                                args.duration, args.volume)
           r == generate_and_store_beat(instruction, beats)
       IN  /\ beats' = r.value
           /\ pc' = "built"
    /\ UNCHANGED <<args, file, instructions, loop, i, raised, plays, handed>>

\* lines 104-108: loop expansion
Expand ==
    /\ pc = "built"
    /\ IF loop
       THEN LET total_duration == SumDurations(instructions.items)
            IN  IF total_duration = 0
                THEN Fail("ZeroDivisionError") /\ UNCHANGED beats
                ELSE /\ beats' = tile(beats, Repetitions(total_duration))
                     /\ pc' = "convert"
                     /\ UNCHANGED raised
       ELSE /\ pc' = "convert"
            /\ UNCHANGED <<beats, raised>>
    /\ UNCHANGED <<args, file, instructions, loop, i, plays, handed>>

\* lines 110-115: AudioSegment over the same samples
ToAudioSegment ==
    /\ pc = "convert"
    /\ pc' = "play"
    /\ UNCHANGED <<args, file, instructions, loop, beats, i, raised, plays, handed>>

\* lines 119 / 121: play(beats) is called
PlayCall ==
    /\ pc = "play"
    /\ pc' = "playing"
    /\ handed' = beats
    /\ plays' = IF plays < MaxPlays THEN plays + 1 ELSE plays
    /\ UNCHANGED <<args, file, instructions, loop, beats, i, raised>>

\* play returns: `while True` calls it again, otherwise main returns
PlayReturn ==
    /\ pc = "playing"
    /\ pc' = AfterPlay(loop)
    /\ UNCHANGED <<args, file, instructions, loop, beats, i, raised, plays, handed>>

Next ==
    \/ LoadSpec
    \/ DetectFormat
    \/ BuildStep
    \/ CliBuild
    \/ Expand
    \/ ToAudioSegment
    \/ PlayCall
    \/ PlayReturn

Spec == Init /\ [][Next]_vars

\* main is one thread that keeps executing, and play returns.
LiveSpec == Spec /\ WF_vars(Next)

\* ===================================================================
\* Properties
\* ===================================================================

\* The instruction main builds from the scalar flags (lines 95-100).
CliInstruction ==
    Instr(InstrKeys, args.left_frequency, args.right_frequency, args.duration,
          args.volume)

\* The program as a list of instructions, whichever way it was given.
ProgramItems ==
    IF args.spec_file THEN instructions.items ELSE <<CliInstruction>>

\* Sum of an integer sequence.
RECURSIVE SumIn(_, _, _)
SumIn(s, lo, hi) ==
    IF lo > hi THEN 0
    ELSE IF lo = hi THEN s[lo]
    ELSE LET mid == (lo + hi) \div 2 IN SumIn(s, lo, mid) + SumIn(s, mid + 1, hi)
Sum(s) == SumIn(s, 1, Len(s))

ChunkDurs(chunks) == [k \in 1..Len(chunks) |-> chunks[k].duration]

\* The step is a successful call of generate_and_store_beat.
StepBuilds ==
    \/ pc = "build" /\ instructions.type = "list" /\ pc' # "failed"
    \/ pc = "start" /\ pc' = "built"

\* The instruction that call is given, and the chunks it appended.
StepInstruction == IF pc = "start" THEN CliInstruction ELSE instructions.items[i]
Appended == SubSeq(beats'.chunks, Len(beats.chunks) + 1, Len(beats'.chunks))

\* The buffer the program's instructions build, instruction by instruction.
RECURSIVE BuildFrom(_, _)
BuildFrom(items, buf) ==
    IF items = <<>> THEN buf
    ELSE BuildFrom(Tail(items), generate_and_store_beat(Head(items), buf).value)
BuiltBuffer == BuildFrom(ProgramItems, EmptyArray)

TotalDuration == SumDurations(ProgramItems)

\* C1: for every instruction duration d > 0, generate_and_store_beat appends
\* floor(d/60) chunks of exactly 60 seconds followed by one chunk of d mod 60
\* seconds, which is left out when d is a multiple of 60; every chunk is at
\* most 60 seconds and none is empty, the chunk durations sum to d, and for
\* d < 60 there is exactly one chunk, equal to d.
C1_Chunking ==
    [][(StepBuilds /\ StepInstruction.duration > 0) =>
        LET d == StepInstruction.duration
            ds == ChunkDurs(Appended)
            q == d \div ChunkTicks
            r == d % ChunkTicks
        IN  /\ \A k \in 1..Len(ds) : 0 < ds[k] /\ ds[k] <= ChunkTicks
            /\ Sum(ds) = d
            /\ Len(ds) = q + (IF r > 0 THEN 1 ELSE 0)
            /\ \A k \in 1..q : ds[k] = ChunkTicks
            /\ r > 0 => ds[Len(ds)] = r
            /\ d < ChunkTicks => ds = <<d>>
      ]_vars

\* 150 s has been chunked into 60, 60, 30.
C1_Witness ==
    /\ pc = "built"
    /\ ~args.spec_file
    /\ args.duration = Seconds(150)
    /\ ChunkDurs(beats.chunks) = <<ChunkTicks, ChunkTicks, Seconds(30)>>

FloorFrames(duration) == (duration * SampleRate) \div TicksPerSecond
CeilFrames(duration) == CeilDiv(duration * SampleRate, TicksPerSecond)

\* C2 as stated: once all instructions are built the sample buffer holds
\* 2 * sum(floor(chunk_duration * 44100)) samples over all synthesized
\* chunks, and its length is always even.
C2_FloorLength ==
    /\ SampleLen(beats) % 2 = 0
    /\ pc = "built" =>
         SampleLen(beats) =
            2 * Sum([k \in 1..Len(beats.chunks) |-> FloorFrames(beats.chunks[k].duration)])

\* C2 amended: once all instructions are built the sample buffer holds
\* 2 * sum(ceil(chunk_duration * 44100)) samples over all synthesized chunks
\* (a chunk whose duration is not a whole number of sample periods gets the
\* sample at the start of its partial last period), and its length is always
\* even.
C2_CeilLength ==
    /\ SampleLen(beats) % 2 = 0
    /\ pc = "built" =>
         SampleLen(beats) =
            2 * Sum([k \in 1..Len(beats.chunks) |-> CeilFrames(beats.chunks[k].duration)])

\* A chunk of 1/TicksPerSecond s and one of 45 s have been built.
C2_Witness ==
    /\ pc = "built"
    /\ args.spec_file
    /\ ChunkDurs(beats.chunks) = <<1, Seconds(45)>>
    /\ SampleLen(beats) = 2 * (CeilFrames(1) + 45 * SampleRate)

\* C3: translate_new_spec_format maps {base, program, loop} to a list of the
\* same length and order as program whose k-th instruction has
\* left_frequency = base, right_frequency = base + tone_k, duration =
\* duration_k and volume = -20.0, and returns the loop flag, false when the
\* loop key is absent.
C3_Translate ==
    (/\ file.status = "ok"
     /\ file.json.type = "dict"
     /\ {"base", "program"} \subseteq file.json.keys
     /\ pc \notin {"start", "loaded"})
    => /\ instructions.type = "list"
       /\ Len(instructions.items) = Len(file.json.program)
       /\ \A k \in 1..Len(file.json.program) :
            /\ instructions.items[k].keys = InstrKeys
            /\ instructions.items[k].left_frequency = file.json.base
            /\ instructions.items[k].right_frequency =
                    file.json.base + file.json.program[k][1]
            /\ instructions.items[k].duration = file.json.program[k][2]
            /\ instructions.items[k].volume = -20
       /\ loop = ("loop" \in file.json.keys /\ file.json.loop)

\* {base: 440, program: [[4, 45], [8, 60]], loop: true} has been translated.
C3_Witness ==
    /\ pc = "build"
    /\ i = 1
    /\ file.json.type = "dict"
    /\ file.json.program = <<<<4, Seconds(45)>>, <<8, ChunkTicks>>>>
    /\ loop
    /\ Len(instructions.items) = 2
    /\ instructions.items[2].right_frequency = 448

\* C4: in loop mode the buffer handed to play is the built buffer repeated
\* floor(7200 / total_duration) times, total_duration the sum of the
\* instruction durations; its length is that many times the built length.
C4_LoopExpansion ==
    (pc = "playing" /\ loop) =>
        LET n == desired_duration \div TotalDuration
        IN  /\ handed = tile(BuiltBuffer, n)
            /\ SampleLen(handed) = n * SampleLen(BuiltBuffer)

\* A 10 s program is played as 720 copies.
C4_Witness ==
    /\ pc = "playing"
    /\ loop
    /\ TotalDuration = Seconds(10)
    /\ handed.reps = 720
    /\ SampleLen(handed) = 720 * 2 * 10 * SampleRate

\* C5: without loop, play is called exactly once, on the unexpanded built
\* buffer, and the run then ends normally; with loop, play is called again
\* after every return, so it is called infinitely often and the run never
\* ends.
C5_Playback ==
    /\ [](~loop => plays <= 1)
    /\ [](pc = "done" => ~loop /\ plays = 1 /\ handed = BuiltBuffer)
    /\ [](pc = "play" /\ ~loop => <>(pc = "done"))
    /\ [](pc = "play" /\ loop => []<>(pc = "playing"))
    /\ [](pc = "playing" /\ loop => <>(pc = "play"))

\* In loop mode play has returned MaxPlays times and is about to be called
\* again.
C5_Witness ==
    /\ pc = "play"
    /\ loop
    /\ plays = MaxPlays
    /\ SampleLen(handed) > 0

\* C6 as stated: a looped program of total duration zero fails with a
\* ValidationError; no division by zero propagates.
C6_ZeroDurationValidated ==
    /\ raised # "ZeroDivisionError"
    /\ (pc = "failed" /\ loop /\ TotalDuration = 0) => raised = "ValidationError"

\* Some required key is absent from the loaded spec.
MissingKey ==
    /\ file.status = "ok"
    /\ \/ /\ file.json.type = "list"
          /\ \E k \in 1..Len(file.json.items) : file.json.items[k].keys # InstrKeys
       \/ /\ file.json.type = "dict"
          /\ ~({"base", "program"} \subseteq file.json.keys)

\* C7 as stated: when a spec with a required key missing fails, nothing has
\* been synthesized yet: the sample buffer is still empty at the failure.
C7_SchemaBeforeSynthesis ==
    (MissingKey /\ pc = "failed") => SampleLen(beats) = 0

\* The buffer play must be given once everything is built and expanded.
FinalBuffer ==
    IF loop THEN tile(BuiltBuffer, desired_duration \div TotalDuration)
    ELSE BuiltBuffer

\* C8: play is not called before every instruction has been synthesized and
\* appended and, in loop mode, the expansion is complete; a run that fails
\* never calls play.
C8_NoEarlyPlay ==
    /\ (pc = "failed" \/ raised # "none") => plays = 0
    /\ (plays > 0 \/ pc = "playing") =>
          /\ raised = "none"
          /\ args.spec_file => i = Len(instructions.items) + 1
          /\ beats = FinalBuffer
          /\ handed = FinalBuffer

\* Play has been called on a looped two-instruction program.
C8_Witness ==
    /\ pc = "playing"
    /\ plays = 1
    /\ loop
    /\ Len(instructions.items) = 2
    /\ i = 3
    /\ handed.reps > 1

\* The chunks an instruction contributes: its 60 s chunks, then its rest.
ExpectedChunks(ins) ==
    LET q == ins.duration \div ChunkTicks
        r == ins.duration % ChunkTicks
        c(d) == [left |-> ins.left_frequency, right |-> ins.right_frequency,
                 duration |-> d, volume |-> ins.volume]
    IN  [k \in 1..q |-> c(ChunkTicks)] \o (IF r > 0 THEN <<c(r)>> ELSE <<>>)

RECURSIVE ExpectedProgram(_)
ExpectedProgram(items) ==
    IF items = <<>> THEN <<>>
    ELSE ExpectedChunks(Head(items)) \o ExpectedProgram(Tail(items))

Untimed(chunks) ==
    [k \in 1..Len(chunks) |->
        [left |-> chunks[k].left, right |-> chunks[k].right,
         duration |-> chunks[k].duration, volume |-> chunks[k].volume]]

\* C9: each call of generate_and_store_beat keeps the samples already in the
\* buffer as a prefix and appends only its instruction's chunks (60 s chunks
\* first, rest last); the built buffer is the concatenation of the
\* instructions' chunks in program order.
C9_AppendOnly ==
    [][StepBuilds =>
        /\ Len(beats'.chunks) >= Len(beats.chunks)
        /\ SubSeq(beats'.chunks, 1, Len(beats.chunks)) = beats.chunks
        /\ Untimed(Appended) = ExpectedChunks(StepInstruction)
        /\ pc' = "built" => Untimed(beats'.chunks) = ExpectedProgram(ProgramItems)
      ]_vars

\* 150 s then 45 s have been built as 60, 60, 30, 45.
C9_Witness ==
    /\ pc = "built"
    /\ args.spec_file
    /\ Len(instructions.items) = 2
    /\ instructions.items[1].duration = Seconds(150)
    /\ instructions.items[2].duration = Seconds(45)
    /\ ChunkDurs(beats.chunks) = <<ChunkTicks, ChunkTicks, Seconds(30), Seconds(45)>>

\* C10: in loop mode a program longer than 7200 s gets 0 repetitions, so
\* every call of play is given an empty buffer, whatever was built.
C10_EmptyLoop ==
    (loop /\ TotalDuration > desired_duration /\ pc \in {"convert", "play", "playing"})
    => /\ SampleLen(beats) = 0
       /\ pc = "playing" => handed = EmptyArray

\* A 7260 s program was built and play is called on nothing, repeatedly.
C10_Witness ==
    /\ pc = "playing"
    /\ loop
    /\ plays = MaxPlays
    /\ TotalDuration = Seconds(7260)
    /\ SampleLen(BuiltBuffer) = 2 * 7260 * SampleRate
    /\ SampleLen(handed) = 0

====
